---- MODULE Spec2Model ----
(***************************************************************************)
(* Differentiable mutables of mmrazor:                                     *)
(*   mmrazor/models/mutables/mutable_module/diff_mutable_module.py         *)
(* One mutable instance (DiffMutableOP, OneHotMutableOP, DiffChoiceRoute   *)
(* or GumbelChoiceRoute) and the calls a mutator or training loop makes    *)
(* on it.  Every call is one action; `last` records the call just made,    *)
(* its arguments, what it returned or raised, and which candidate modules  *)
(* it invoked on which input.                                              *)
(***************************************************************************)
EXTENDS Integers, Sequences, FiniteSets, TLC

VARIABLES kind, with_arch_param, hard, num_chosen, edges, tau, candidates,
          chosen, is_fixed, unfixed_choices, current_choice, arch_weights,
          forward_args, last

vars == <<kind, with_arch_param, hard, num_chosen, edges, tau, candidates,
          chosen, is_fixed, unfixed_choices, current_choice, arch_weights,
          forward_args, last>>

(***************************************************************************)
(* Bounds of the model.                                                    *)
(***************************************************************************)
\* candidates (or edges) a mutable is built with: 1..MaxCandidates
MaxCandidates == 2
\* a `chosen` list passed to fix_chosen holds 0..MaxChosen names
MaxChosen == 2
\* components of an architecture parameter: 0..MaxArch
MaxArch == 1
\* input data: 1..MaxInput
MaxInput == 2
\* probabilities are fixed-point numbers k/ProbUnit; a positive real
\* probability below 1/ProbUnit rounds to exactly zero, as softmax
\* underflows in floating point
ProbUnit == 2
\* Gumbel noise added to each logit: 0..MaxNoise
MaxNoise == 1
\* temperatures: 1..MaxTau
MaxTau == 2
\* a choice route is built with num_chosen in 1..MaxNumChosen
MaxNumChosen == 2

\* DiffChoiceRoute.__init__: num_chsoen: int = 2
DefaultNumChosen == 2

(***************************************************************************)
(* Python values.                                                          *)
(***************************************************************************)
\* candidate names; "a" is a substring of "ab"
Names == {"a", "ab"}

\* the characters of a name, for Python's `in` on strings
Chars(n) ==
  CASE n = "a" -> <<"a">>
    [] n = "ab" -> <<"a", "b">>

\* Python values of the three shapes the code meets: None, a str, a list
None == [t |-> "none", v |-> <<>>]
Str(n) == [t |-> "str", v |-> <<n>>]
List(s) == [t |-> "list", v |-> s]

\* (sub in s) for two str
IsSubstring(sub, s) ==
  \E i \in 1..(Len(Chars(s)) - Len(Chars(sub)) + 1) :
     SubSeq(Chars(s), i, i + Len(Chars(sub)) - 1) = Chars(sub)

\* (c in val): substring test on a str, membership test on a list
PyIn(c, val) ==
  CASE val.t = "str" -> IsSubstring(c, val.v[1])
    [] val.t = "list" -> \E i \in 1..Len(val.v) : val.v[i] = c
    [] OTHER -> FALSE

\* the set of elements of a sequence
Range(s) == {s[i] : i \in 1..Len(s)}

\* sequences over S of length lo..hi
SeqsOf(S, lo, hi) == UNION {[1..n -> S] : n \in lo..hi}

\* sequences without repetition
Injective(s) == \A i, j \in 1..Len(s) : s[i] = s[j] => i = j

Min(m, n) == IF m <= n THEN m ELSE n

\* sum(outputs)
RECURSIVE SumSeq(_)
SumSeq(s) == IF s = <<>> THEN 0 ELSE s[1] + SumSeq(Tail(s))

\* the output of the candidate module `name` on input x: the modules are
\* opaque computation units, distinguished here by a factor per name
ModuleOut(name, x) ==
  CASE name = "a" -> 2 * x + 1
    [] name = "ab" -> 3 * x + 1

(***************************************************************************)
(* The mutable object.  `self` is the record of its attributes:            *)
(*   candidates       the keys of self._candidates, in insertion order     *)
(*   chosen           self._chosen                                         *)
(*   is_fixed         self._is_fixed                                       *)
(*   unfixed_choices  self._unfixed_choices (DiffChoiceRoute)              *)
(*   current_choice   self.current_choice                                  *)
(*   arch_weights     self.arch_weights (OneHotMutableOP), <<>> if unset   *)
(*   forward_args     the arch_param set_forward_args bound to forward     *)
(* with the constructor's arguments with_arch_param, hard, num_chosen and  *)
(* tau.  The variable `edges` keeps the names the instance was built with, *)
(* in order; no method reads it.                                           *)
(***************************************************************************)
OpKinds == {"DiffMutableOP", "OneHotMutableOP"}
RouteKinds == {"DiffChoiceRoute", "GumbelChoiceRoute"}
Kinds == OpKinds \cup RouteKinds

Self ==
  [kind |-> kind, with_arch_param |-> with_arch_param, hard |-> hard,
   num_chosen |-> num_chosen, tau |-> tau, candidates |-> candidates, chosen |-> chosen,
   is_fixed |-> is_fixed, unfixed_choices |-> unfixed_choices,
   current_choice |-> current_choice, arch_weights |-> arch_weights,
   forward_args |-> forward_args]

\* what a call did: how it ended ("ok" or the exception raised), the number
\* it returned (probability-weighted sums are in units of 1/ProbUnit), the
\* candidate modules it invoked, in order, as <<name, input>>, the gate
\* (probability) vector it used, the Python value it returned, and the object
\* after the call
Outcome(self, status, result, invoked, gates, ret) ==
  [self |-> self, status |-> status, result |-> result, invoked |-> invoked,
   gates |-> gates, ret |-> ret]

Raise(self, exc) == Outcome(self, exc, 0, <<>>, <<>>, None)
Return(self, ret) == Outcome(self, "ok", 0, <<>>, <<>>, ret)

\* DiffMutableOP.choices, DiffChoiceRoute.choices
choices(self) == self.candidates

\* BaseMutable.is_fixed setter, reached by `self.is_fixed = True`
set_is_fixed(self, value) == [self EXCEPT !.is_fixed = value]

\* self._candidates.pop(c)
Pop(cands, c) == SelectSeq(cands, LAMBDA k : k # c)

\* for c in self.choices: if c not in chosen: self._candidates.pop(c)
RECURSIVE PopUnchosen(_, _, _)
PopUnchosen(keys, cands, ch) ==
  IF keys = <<>> THEN cands
  ELSE PopUnchosen(Tail(keys),
                   IF ~PyIn(Head(keys), ch) THEN Pop(cands, Head(keys))
                                            ELSE cands,
                   ch)

\* DiffMutableOP.fix_chosen without its check of is_fixed: a second call
\* prunes and records again
DiffMutableOP_fix_chosen_unguarded(self, ch) ==
  LET norm == IF ch.t = "str" THEN List(ch.v) ELSE ch
  IN  Return([self EXCEPT
                !.candidates = PopUnchosen(choices(self), self.candidates,
                                           norm),
                !.chosen = norm,
                !.is_fixed = TRUE],
             None)

\* DiffMutableOP.fix_chosen(chosen)
DiffMutableOP_fix_chosen(self, ch) ==
  IF self.is_fixed THEN Raise(self, "AttributeError")
  ELSE LET norm == IF ch.t = "str" THEN List(ch.v) ELSE ch
           pruned == [self EXCEPT
                        !.candidates = PopUnchosen(choices(self),
                                                   self.candidates, norm),
                        !.chosen = norm]
       IN  Return(set_is_fixed(pruned, TRUE), None)

\* DiffChoiceRoute.fix_chosen clearing the mode flag before it raises on an
\* instance that is already fixed
DiffChoiceRoute_fix_chosen_reopens(self, ch) ==
  LET snap == [self EXCEPT !.unfixed_choices = List(choices(self))]
  IN  IF snap.is_fixed
      THEN Raise([snap EXCEPT !.is_fixed = FALSE], "AttributeError")
      ELSE Return([snap EXCEPT
                     !.candidates = PopUnchosen(choices(snap),
                                                snap.candidates, ch),
                     !.chosen = ch,
                     !.is_fixed = TRUE],
                  None)

\* DiffChoiceRoute.fix_chosen(chosen)
DiffChoiceRoute_fix_chosen(self, ch) ==
  LET snap == [self EXCEPT !.unfixed_choices = List(choices(self))]
  IN  IF snap.is_fixed THEN Raise(snap, "AttributeError")
      ELSE LET pruned == [snap EXCEPT
                            !.candidates = PopUnchosen(choices(snap),
                                                       snap.candidates, ch),
                            !.chosen = ch]
           IN  Return(set_is_fixed(pruned, TRUE), None)

\* fix_chosen of the instance's class
fix_chosen(self, ch) ==
  IF self.kind \in OpKinds THEN DiffMutableOP_fix_chosen(self, ch)
  ELSE DiffChoiceRoute_fix_chosen(self, ch)

\* BaseMutable.current_choice: an attribute of its own, None until it is
\* assigned; no method of the four classes assigns it
get_current_choice(self) == self.current_choice

\* DiffMutableOP.dump_chosen, DiffChoiceRoute.dump_chosen
dump_chosen(self) ==
  IF get_current_choice(self) = None THEN Raise(self, "AssertionError")
  ELSE Return(self, get_current_choice(self))

(***************************************************************************)
(* Probabilities.                                                          *)
(***************************************************************************)
RECURSIVE Pow2(_)
Pow2(n) == IF n <= 0 THEN 1 ELSE 2 * Pow2(n - 1)

\* index of the first maximal component (torch.argmax / max over dim)
ArgMax(a) ==
  CHOOSE i \in 1..Len(a) :
    /\ \A j \in 1..Len(a) : a[j] <= a[i]
    /\ \A j \in 1..(i - 1) : a[j] < a[i]

\* the one-hot vector of length n with its 1.0 at index i
OneHot(n, i) == [j \in 1..n |-> IF j = i THEN ProbUnit ELSE 0]

\* F.softmax(arch_param, -1), in fixed point: exp is taken to the base 2
\* and each probability is rounded down to a multiple of 1/ProbUnit
Softmax(a) ==
  LET total == SumSeq([i \in 1..Len(a) |-> Pow2(a[i])])
  IN  [i \in 1..Len(a) |-> (ProbUnit * Pow2(a[i])) \div total]

\* F.gumbel_softmax(arch_param, tau, hard, dim=-1) for the Gumbel noise
\* drawn: softmax((logits + noise) / tau), discretized to the one-hot vector
\* of its maximum when hard
GumbelSoftmax(a, noise, t, h) ==
  LET logits == [i \in 1..Len(a) |-> ((a[i] + noise[i]) * MaxTau) \div t]
  IN  IF h THEN OneHot(Len(a), ArgMax(logits)) ELSE Softmax(logits)

\* DiffMutableModule.compute_arch_probs, and GumbelChoiceRoute's override;
\* rnd.noise is the Gumbel noise the call draws
compute_arch_probs(self, arch_param, rnd) ==
  IF self.kind = "GumbelChoiceRoute"
  THEN GumbelSoftmax(arch_param.v, rnd.noise, self.tau, self.hard)
  ELSE Softmax(arch_param.v)

\* OneHotMutableOP.sample_weights(arch_param, probs): a one-hot sample of
\* the categorical distribution probs; rnd.pick is the category drawn
sample_weights(arch_param, probs, rnd) == OneHot(Len(probs), rnd.pick)

\* the draws a call with this architecture parameter can make
Draws(self, arch_param) ==
  LET n == Len(arch_param.v)
      noises == IF self.kind = "GumbelChoiceRoute" /\ arch_param # None
                THEN [1..n -> 0..MaxNoise] ELSE {<<>>}
      picks == IF self.kind = "OneHotMutableOP" /\ arch_param # None
               THEN {i \in 1..n : Softmax(arch_param.v)[i] > 0} ELSE {0}
  IN  [noise : noises, pick : picks]

(***************************************************************************)
(* Forward passes.                                                         *)
(***************************************************************************)
\* the loop of DiffMutableOP.forward_arch_param with `prob >= 0.` for
\* `prob > 0.`: zero-probability candidates are invoked too
RECURSIVE OpWeightedLoop_nonneg(_, _, _, _, _, _)
OpWeightedLoop_nonneg(gates, cands, x, i, outputs, invoked) ==
  IF i > Min(Len(gates), Len(cands))
  THEN [outputs |-> outputs, invoked |-> invoked]
  ELSE OpWeightedLoop_nonneg(gates, cands, x, i + 1,
                             Append(outputs,
                                    gates[i] * ModuleOut(cands[i], x)),
                             Append(invoked, <<cands[i], x>>))

\* for prob, module in zip(probs, self._candidates.values()):
\*     if prob > 0.: outputs.append(prob * module(x))
RECURSIVE OpWeightedLoop(_, _, _, _, _, _)
OpWeightedLoop(gates, cands, x, i, outputs, invoked) ==
  IF i > Min(Len(gates), Len(cands))
  THEN [outputs |-> outputs, invoked |-> invoked]
  ELSE IF gates[i] > 0
       THEN OpWeightedLoop(gates, cands, x, i + 1,
                           Append(outputs, gates[i] * ModuleOut(cands[i], x)),
                           Append(invoked, <<cands[i], x>>))
       ELSE OpWeightedLoop(gates, cands, x, i + 1, outputs, invoked)

\* DiffMutableOP.forward_all(x)
DiffMutableOP_forward_all(self, x) ==
  LET cands == self.candidates
      outputs == [i \in 1..Len(cands) |-> ModuleOut(cands[i], x)]
  IN  Outcome(self, "ok", SumSeq(outputs),
              [i \in 1..Len(cands) |-> <<cands[i], x>>], <<>>, None)

\* DiffMutableOP.forward_arch_param(x, arch_param)
DiffMutableOP_forward_arch_param(self, x, arch_param, rnd) ==
  IF arch_param = None THEN DiffMutableOP_forward_all(self, x)
  ELSE LET probs == compute_arch_probs(self, arch_param, rnd)
           run == OpWeightedLoop(probs, self.candidates, x, 1, <<>>, <<>>)
       IN  Outcome(self, "ok", SumSeq(run.outputs), run.invoked, probs, None)

\* OneHotMutableOP.forward_arch_param(x, arch_param)
OneHotMutableOP_forward_arch_param(self, x, arch_param, rnd) ==
  IF arch_param = None THEN DiffMutableOP_forward_all(self, x)
  ELSE LET probs == compute_arch_probs(self, arch_param, rnd)
           weights == sample_weights(arch_param, probs, rnd)
           sampled == [self EXCEPT !.arch_weights = weights]
           run == OpWeightedLoop(weights, self.candidates, x, 1, <<>>, <<>>)
       IN  Outcome(sampled, "ok", SumSeq(run.outputs), run.invoked, weights,
                   None)

\* sum(self._candidates[choice](x) for choice in self._chosen)
RECURSIVE OpFixedLoop(_, _, _, _, _)
OpFixedLoop(cands, rest, x, outputs, invoked) ==
  IF rest = <<>>
  THEN [status |-> "ok", outputs |-> outputs, invoked |-> invoked]
  ELSE IF Head(rest) \notin Range(cands)
       THEN [status |-> "KeyError", outputs |-> outputs, invoked |-> invoked]
       ELSE OpFixedLoop(cands, Tail(rest), x,
                        Append(outputs, ModuleOut(Head(rest), x)),
                        Append(invoked, <<Head(rest), x>>))

\* DiffMutableOP.forward_fixed(x)
DiffMutableOP_forward_fixed(self, x) ==
  IF self.chosen = None THEN Raise(self, "TypeError")
  ELSE LET run == OpFixedLoop(self.candidates, self.chosen.v, x, <<>>, <<>>)
       IN  IF run.status = "ok"
           THEN Outcome(self, "ok", SumSeq(run.outputs), run.invoked, <<>>,
                        None)
           ELSE Outcome(self, run.status, 0, run.invoked, <<>>, None)

\* DiffChoiceRoute.forward_all without its length assertion: zip stops at
\* the shorter of the edges and the inputs
DiffChoiceRoute_forward_all_unchecked(self, x) ==
  LET cands == self.candidates
      n == Min(Len(cands), Len(x))
      outputs == [i \in 1..n |-> ModuleOut(cands[i], x[i])]
  IN  Outcome(self, "ok", SumSeq(outputs),
              [i \in 1..n |-> <<cands[i], x[i]>>], <<>>, None)

\* DiffChoiceRoute.forward_all(x)
DiffChoiceRoute_forward_all(self, x) ==
  IF Len(x) # Len(self.candidates) THEN Raise(self, "AssertionError")
  ELSE LET cands == self.candidates
           outputs == [i \in 1..Len(cands) |-> ModuleOut(cands[i], x[i])]
       IN  Outcome(self, "ok", SumSeq(outputs),
                   [i \in 1..Len(cands) |-> <<cands[i], x[i]>>], <<>>, None)

\* for prob, module, input in zip(probs, self._candidates.values(), x):
\*     if prob > 0: outputs.append(prob * module(input))
RECURSIVE RouteWeightedLoop(_, _, _, _, _, _)
RouteWeightedLoop(gates, cands, x, i, outputs, invoked) ==
  IF i > Min(Len(gates), Min(Len(cands), Len(x)))
  THEN [outputs |-> outputs, invoked |-> invoked]
  ELSE IF gates[i] > 0
       THEN RouteWeightedLoop(gates, cands, x, i + 1,
                              Append(outputs,
                                     gates[i] * ModuleOut(cands[i], x[i])),
                              Append(invoked, <<cands[i], x[i]>>))
       ELSE RouteWeightedLoop(gates, cands, x, i + 1, outputs, invoked)

\* DiffChoiceRoute.forward_arch_param(x, arch_param); compute_arch_probs
\* raises on an arch_param of None: F.softmax calls None.softmax,
\* F.gumbel_softmax calls torch.empty_like(None)
DiffChoiceRoute_forward_arch_param(self, x, arch_param, rnd) ==
  IF Len(x) # Len(self.candidates) THEN Raise(self, "AssertionError")
  ELSE IF self.with_arch_param
       THEN IF arch_param = None
            THEN Raise(self, IF self.kind = "GumbelChoiceRoute"
                             THEN "TypeError" ELSE "AttributeError")
            ELSE LET probs == compute_arch_probs(self, arch_param, rnd)
                     run == RouteWeightedLoop(probs, self.candidates, x, 1,
                                              <<>>, <<>>)
                 IN  Outcome(self, "ok", SumSeq(run.outputs), run.invoked,
                             probs, None)
       ELSE DiffChoiceRoute_forward_all(self, x)

\* for choice, x in zip(self._unfixed_choices, inputs):
\*     if choice in self._chosen:
\*         outputs.append(self._candidates[choice](x))
RECURSIVE RouteFixedLoop(_, _, _, _, _, _, _)
RouteFixedLoop(cands, ch, order, inputs, i, outputs, invoked) ==
  IF i > Min(Len(order), Len(inputs))
  THEN [status |-> "ok", outputs |-> outputs, invoked |-> invoked]
  ELSE IF PyIn(order[i], ch)
       THEN IF order[i] \notin Range(cands)
            THEN [status |-> "KeyError", outputs |-> outputs,
                  invoked |-> invoked]
            ELSE RouteFixedLoop(cands, ch, order, inputs, i + 1,
                                Append(outputs,
                                       ModuleOut(order[i], inputs[i])),
                                Append(invoked, <<order[i], inputs[i]>>))
       ELSE RouteFixedLoop(cands, ch, order, inputs, i + 1, outputs, invoked)

\* DiffChoiceRoute.forward_fixed(inputs)
DiffChoiceRoute_forward_fixed(self, inputs) ==
  IF self.chosen = None THEN Raise(self, "AssertionError")
  ELSE IF self.unfixed_choices = None THEN Raise(self, "AttributeError")
  ELSE LET run == RouteFixedLoop(self.candidates, self.chosen,
                                 self.unfixed_choices.v, inputs, 1,
                                 <<>>, <<>>)
       IN  IF run.status = "ok"
           THEN Outcome(self, "ok", SumSeq(run.outputs), run.invoked, <<>>,
                        None)
           ELSE Outcome(self, run.status, 0, run.invoked, <<>>, None)

\* the methods of the instance's class; on an op mutable x is the
\* one-element sequence holding the single input
forward_fixed(self, x) ==
  IF self.kind \in OpKinds THEN DiffMutableOP_forward_fixed(self, x[1])
  ELSE DiffChoiceRoute_forward_fixed(self, x)

forward_all(self, x) ==
  IF self.kind \in OpKinds THEN DiffMutableOP_forward_all(self, x[1])
  ELSE DiffChoiceRoute_forward_all(self, x)

forward_arch_param(self, x, arch_param, rnd) ==
  CASE self.kind = "DiffMutableOP" ->
         DiffMutableOP_forward_arch_param(self, x[1], arch_param, rnd)
    [] self.kind = "OneHotMutableOP" ->
         OneHotMutableOP_forward_arch_param(self, x[1], arch_param, rnd)
    [] OTHER -> DiffChoiceRoute_forward_arch_param(self, x, arch_param, rnd)

\* DiffMutableModule.forward(x, arch_param)
DiffMutableModule_forward(self, x, arch_param, rnd) ==
  IF self.is_fixed THEN forward_fixed(self, x)
  ELSE forward_arch_param(self, x, arch_param, rnd)

\* self.forward(x) or self.forward(x, arch_param=p): set_forward_args
\* rebinds self.forward to partial(self.forward, arch_param=bound), so an
\* omitted arch_param (None here) takes the bound one
forward(self, x, arch_param, rnd) ==
  DiffMutableModule_forward(self, x,
                            IF arch_param = None THEN self.forward_args
                                                 ELSE arch_param,
                            rnd)

\* DiffMutableModule.set_forward_args(arch_param)
set_forward_args(self, arch_param) ==
  Return([self EXCEPT !.forward_args = arch_param], None)

\* GumbelChoiceRoute.set_temperature(tau)
set_temperature(self, t) == Return([self EXCEPT !.tau = t], None)

\* DiffMutableOP.sample_choice with an argmax that returns the last of
\* several maximal components
DiffMutableOP_sample_choice_lastmax(self, arch_param) ==
  LET a == arch_param.v
      idx == CHOOSE i \in 1..Len(a) :
               /\ \A j \in 1..Len(a) : a[j] <= a[i]
               /\ \A j \in (i + 1)..Len(a) : a[j] < a[i]
  IN  IF idx > Len(choices(self)) THEN Raise(self, "IndexError")
      ELSE Return(self, Str(choices(self)[idx]))

\* DiffMutableOP.sample_choice(arch_param)
DiffMutableOP_sample_choice(self, arch_param) ==
  IF ArgMax(arch_param.v) > Len(choices(self)) THEN Raise(self, "IndexError")
  ELSE Return(self, Str(choices(self)[ArgMax(arch_param.v)]))

\* the index orders torch.argsort(-arch_param) can return: descending by
\* value, equal values in any order
ArgSorts(a) ==
  {p \in [1..Len(a) -> 1..Len(a)] :
     /\ Injective(p)
     /\ \A i \in 1..(Len(a) - 1) : a[p[i]] >= a[p[i + 1]]}

\* DiffChoiceRoute.sample_choice slicing the tail of the sorted indices
\* instead of the head: it returns the candidates with the smallest values
DiffChoiceRoute_sample_choice_tail(self, arch_param, sort_idx) ==
  LET n == Min(self.num_chosen, Len(sort_idx))
      choice_idx == SubSeq(sort_idx, Len(sort_idx) - n + 1, Len(sort_idx))
  IN  IF \E i \in 1..Len(choice_idx) : choice_idx[i] > Len(choices(self))
      THEN Raise(self, "IndexError")
      ELSE Return(self, List([i \in 1..Len(choice_idx) |->
                                choices(self)[choice_idx[i]]]))

\* DiffChoiceRoute.sample_choice(arch_param), for the order argsort returns
DiffChoiceRoute_sample_choice(self, arch_param, sort_idx) ==
  LET choice_idx == SubSeq(sort_idx, 1, Min(self.num_chosen, Len(sort_idx)))
  IN  IF \E i \in 1..Len(choice_idx) : choice_idx[i] > Len(choices(self))
      THEN Raise(self, "IndexError")
      ELSE Return(self, List([i \in 1..Len(choice_idx) |->
                                choices(self)[choice_idx[i]]]))

(***************************************************************************)
(* The calls.                                                              *)
(***************************************************************************)
\* input data for a forward call: one input for an op mutable, a sequence
\* of inputs, one per edge, for a choice route
InputsFor(self) ==
  IF self.kind \in OpKinds THEN [1..1 -> 1..MaxInput]
  ELSE SeqsOf(1..MaxInput, 1, MaxCandidates)

\* architecture parameters a mutator passes: one component per candidate
ArchParams(self) ==
  IF self.candidates = <<>> THEN {}
  ELSE {List(a) : a \in [1..Len(self.candidates) -> 0..MaxArch]}

\* arguments of fix_chosen: a name, or a list of names
ChosenArgs ==
  {Str(n) : n \in Names} \cup {List(c) : c \in SeqsOf(Names, 0, MaxChosen)}

\* the record of a call: the method, its input data x, its other argument
\* (an architecture parameter, or the `chosen` of fix_chosen), and what the
\* call did
Call(op, x, arg, out) ==
  [op |-> op, x |-> x, arg |-> arg, status |-> out.status,
   result |-> out.result, invoked |-> out.invoked, gates |-> out.gates,
   ret |-> out.ret]

\* the object after a call; the construction-time attributes stay
Becomes(self) ==
  /\ candidates' = self.candidates
  /\ chosen' = self.chosen
  /\ is_fixed' = self.is_fixed
  /\ unfixed_choices' = self.unfixed_choices
  /\ current_choice' = self.current_choice
  /\ arch_weights' = self.arch_weights
  /\ forward_args' = self.forward_args
  /\ tau' = self.tau
  /\ UNCHANGED <<kind, with_arch_param, hard, num_chosen, edges>>

\* no call has been made, or the caller has taken the last call's result
NoCall ==
  [op |-> "none", x |-> <<>>, arg |-> None, status |-> "ok",
   result |-> 0, invoked |-> <<>>, gates |-> <<>>, ret |-> None]

\* the calls are synchronous and made from a single control thread: one
\* call runs to its end, the caller takes what it returned or raised, and
\* only then makes the next
Do(op, x, arg, out) ==
  /\ last = NoCall
  /\ Becomes(out.self)
  /\ last' = Call(op, x, arg, out)

\* the caller takes the result of the call
CallerResumes ==
  /\ last # NoCall
  /\ last' = NoCall
  /\ UNCHANGED <<kind, with_arch_param, hard, num_chosen, edges, tau,
                 candidates, chosen, is_fixed, unfixed_choices,
                 current_choice, arch_weights, forward_args>>

Init ==
  /\ kind \in Kinds
  /\ with_arch_param \in (IF kind \in RouteKinds THEN BOOLEAN ELSE {FALSE})
  /\ hard \in (IF kind = "GumbelChoiceRoute" THEN BOOLEAN ELSE {FALSE})
  /\ num_chosen \in (IF kind = "DiffChoiceRoute" THEN 1..MaxNumChosen
                                                 ELSE {DefaultNumChosen})
  /\ tau = 1
  /\ edges \in {c \in SeqsOf(Names, 1, MaxCandidates) : Injective(c)}
  /\ candidates = edges
  /\ chosen = None
  /\ is_fixed = FALSE
  /\ unfixed_choices = None
  /\ current_choice = None
  /\ arch_weights = <<>>
  /\ forward_args = None
  /\ last = NoCall

CallForward ==
  \E x \in InputsFor(Self), p \in ArchParams(Self) \cup {None} :
    \E rnd \in Draws(Self, IF p = None THEN forward_args ELSE p) :
      Do("forward", x, p, forward(Self, x, p, rnd))

CallForwardArchParam ==
  \E x \in InputsFor(Self), p \in ArchParams(Self) \cup {None} :
    \E rnd \in Draws(Self, p) :
      Do("forward_arch_param", x, p, forward_arch_param(Self, x, p, rnd))

CallForwardAll ==
  \E x \in InputsFor(Self) : Do("forward_all", x, None, forward_all(Self, x))

CallForwardFixed ==
  \E x \in InputsFor(Self) :
    Do("forward_fixed", x, None, forward_fixed(Self, x))

CallFixChosen ==
  \E ch \in ChosenArgs : Do("fix_chosen", <<>>, ch, fix_chosen(Self, ch))

CallDumpChosen == Do("dump_chosen", <<>>, None, dump_chosen(Self))

CallSampleChoice ==
  \E p \in ArchParams(Self) :
    IF kind \in OpKinds
    THEN Do("sample_choice", <<>>, p, DiffMutableOP_sample_choice(Self, p))
    ELSE \E sort_idx \in ArgSorts(p.v) :
           Do("sample_choice", <<>>, p,
              DiffChoiceRoute_sample_choice(Self, p, sort_idx))

CallSetForwardArgs ==
  \E p \in ArchParams(Self) :
    Do("set_forward_args", <<>>, p, set_forward_args(Self, p))

CallSetTemperature ==
  /\ kind = "GumbelChoiceRoute"
  /\ \E t \in 1..MaxTau :
       Do("set_temperature", <<t>>, None, set_temperature(Self, t))

Next ==
  \/ CallForward
  \/ CallForwardArchParam
  \/ CallForwardAll
  \/ CallForwardFixed
  \/ CallFixChosen
  \/ CallDumpChosen
  \/ CallSampleChoice
  \/ CallSetForwardArgs
  \/ CallSetTemperature
  \/ CallerResumes

Spec == Init /\ [][Next]_vars

(***************************************************************************)
(* Properties.                                                             *)
(***************************************************************************)
\* the attributes of the mutable that a failed call must leave alone
Attributes ==
  <<tau, candidates, chosen, is_fixed, unfixed_choices, current_choice,
    arch_weights, forward_args>>

\* the indices 1..n that satisfy Keep, in increasing order
Indices(n, Keep(_)) == SelectSeq([i \in 1..n |-> i], Keep)

\* C1: fix_chosen on an instance that is already fixed raises the state
\* error, and the failed call leaves the mode flag true and the candidate
\* set and the recorded chosen set as they were.
C1_SecondFixChosenFails ==
  [][(is_fixed /\ last'.op = "fix_chosen") =>
       /\ last'.status = "AttributeError"
       /\ is_fixed'
       /\ candidates' = candidates
       /\ chosen' = chosen]_vars

\* a DiffMutableOP that is fixed has just refused a second fix_chosen
C1_Witness ==
  /\ kind = "DiffMutableOP"
  /\ is_fixed
  /\ last.op = "fix_chosen"
  /\ last.status = "AttributeError"

\* C2: after a successful fix_chosen(chosen), whatever chosen the call
\* accepted, the candidate set is as large as the chosen set, every
\* surviving key is in the chosen set, every chosen name was a candidate at
\* fix time, and every candidate outside the chosen set is deleted.
C2_FixChosenKeepsExactlyChosen ==
  (last.op = "fix_chosen" /\ last.status = "ok") =>
     /\ Len(candidates) = Len(chosen.v)
     /\ Range(candidates) \subseteq Range(chosen.v)
     /\ Range(chosen.v) \subseteq Range(edges)
     /\ \A k \in Range(edges) \ Range(chosen.v) : k \notin Range(candidates)

\* C3: is_fixed is false at construction, no call takes it from true to
\* false, and only a successful fix_chosen takes it from false to true.
C3_IsFixedMonotone ==
  /\ ~is_fixed
  /\ [][/\ is_fixed => is_fixed'
        /\ (~is_fixed /\ is_fixed') =>
             (last'.op = "fix_chosen" /\ last'.status = "ok")]_vars

\* a Gumbel route that is fixed has had its temperature set, and is fixed
\* still
C3_Witness ==
  /\ is_fixed
  /\ last.op = "set_temperature"
  /\ last.status = "ok"

\* C4: on a fixed DiffMutableOP, forward(x, arch_param) returns, for every
\* arch_param, the unweighted sum of the outputs on x of exactly the chosen
\* candidates.
C4_FixedForwardSumsChosen ==
  (kind = "DiffMutableOP" /\ is_fixed /\ last.op = "forward") =>
     /\ last.status = "ok"
     /\ last.invoked = [i \in 1..Len(chosen.v) |-> <<chosen.v[i], last.x[1]>>]
     /\ last.result =
          SumSeq([i \in 1..Len(chosen.v) |-> ModuleOut(chosen.v[i], last.x[1])])

\* C5: on an unfixed mutable of any of the four classes, with_arch_param
\* set or not, forward without an architecture parameter (none passed and
\* none bound by set_forward_args) does not fail and returns what
\* forward_all returns on the same input.
C5_ForwardWithoutParamIsForwardAll ==
  (/\ ~is_fixed
   /\ last.op = "forward"
   /\ last.arg = None
   /\ forward_args = None
   /\ kind \in RouteKinds => Len(last.x) = Len(candidates)) =>
     /\ last.status = "ok"
     /\ last.result = forward_all(Self, last.x).result
     /\ last.invoked = forward_all(Self, last.x).invoked

\* C6: on a fixed choice route, forward_fixed given one input per edge the
\* route was built with pairs the i-th input with the i-th edge of the
\* pre-fix ordering and returns the sum of edge(input) over exactly the
\* chosen edges, in every state after the successful fix_chosen.
C6_ForwardFixedPairsOriginalOrder ==
  (/\ kind \in RouteKinds
   /\ is_fixed
   /\ last.op = "forward_fixed"
   /\ Len(last.x) = Len(edges)) =>
     LET idx == Indices(Len(edges), LAMBDA i : PyIn(edges[i], chosen))
     IN  /\ last.status = "ok"
         /\ last.invoked =
              [j \in 1..Len(idx) |-> <<edges[idx[j]], last.x[idx[j]]>>]
         /\ last.result =
              SumSeq([j \in 1..Len(idx) |->
                        ModuleOut(edges[idx[j]], last.x[idx[j]])])

\* C7: fix_chosen(n) with a single candidate name n, on any mutable, leaves
\* the candidate set exactly {n} and records the chosen set as the list [n].
C7_SingleNameIsNormalized ==
  (/\ last.op = "fix_chosen"
   /\ last.status = "ok"
   /\ last.arg.t = "str"
   /\ last.arg.v[1] \in Range(edges)) =>
     /\ candidates = last.arg.v
     /\ chosen = List(last.arg.v)

C9_LengthMismatchFailsFirst ==
  [][(/\ kind \in RouteKinds
      /\ last'.op \in {"forward_arch_param", "forward_all"}
      /\ Len(last'.x) # Len(candidates)) =>
       /\ last'.status = "AssertionError"
       /\ last'.invoked = <<>>
       /\ UNCHANGED Attributes]_vars

\* a differentiable route has refused a forward_arch_param whose inputs do
\* not match its edges
C9_Witness ==
  /\ kind \in RouteKinds
  /\ with_arch_param
  /\ last.op = "forward_arch_param"
  /\ last.arg # None
  /\ Len(last.x) # Len(candidates)
  /\ last.status = "AssertionError"

\* C10: on an unfixed DiffMutableOP, or choice route in differentiable
\* mode, forward_arch_param with an architecture parameter of length K
\* invokes, in insertion order, exactly the candidates whose probability is
\* strictly positive, each on its input, and returns the sum of
\* prob_i * candidate_i(input_i) over them.  The probabilities are
\* softmax(arch_param) on DiffMutableOP and DiffChoiceRoute, and on the
\* subclasses the gate vector their relaxation drew.
C10_WeightedSumOverPositiveProbs ==
  (/\ ~is_fixed
   /\ last.op = "forward_arch_param"
   /\ last.arg # None
   /\ kind \in RouteKinds => (with_arch_param /\ Len(last.x) = Len(candidates))) =>
     LET K == Len(candidates)
         prob == last.gates
         input(i) == IF kind \in OpKinds THEN last.x[1] ELSE last.x[i]
         idx == Indices(K, LAMBDA i : prob[i] > 0)
     IN  /\ last.status = "ok"
         /\ Len(prob) = K
         /\ kind \in {"DiffMutableOP", "DiffChoiceRoute"} =>
              prob = Softmax(last.arg.v)
         /\ last.invoked =
              [j \in 1..Len(idx) |-> <<candidates[idx[j]], input(idx[j])>>]
         /\ last.result =
              SumSeq([j \in 1..Len(idx) |->
                        prob[idx[j]]
                          * ModuleOut(candidates[idx[j]], input(idx[j]))])

\* a DiffMutableOP with two candidates has forwarded with a parameter that
\* gives its first candidate probability zero, and invoked only the second
C10_Witness ==
  /\ kind = "DiffMutableOP"
  /\ ~is_fixed
  /\ last.op = "forward_arch_param"
  /\ last.status = "ok"
  /\ Len(last.gates) = 2
  /\ last.gates[1] = 0
  /\ Len(last.invoked) = 1

\* C11: on a choice route with K candidates, sample_choice with a parameter
\* of length K returns min(num_chosen, K) names of distinct candidates,
\* listed in descending order of their parameter values, none of them with
\* a smaller value than a candidate left out; the call changes no
\* attribute of the mutable.
C11_SampleChoiceTopK ==
  [][(/\ kind \in RouteKinds
      /\ last'.op = "sample_choice"
      /\ Len(last'.arg.v) = Len(candidates)) =>
       LET K == Len(candidates)
           a == last'.arg.v
           n == Min(num_chosen, K)
           ret == last'.ret
       IN  /\ last'.status = "ok"
           /\ ret.t = "list"
           /\ Len(ret.v) = n
           /\ \E idx \in [1..n -> 1..K] :
                /\ Injective(idx)
                /\ \A j \in 1..n : ret.v[j] = candidates[idx[j]]
                /\ \A j \in 1..(n - 1) : a[idx[j]] >= a[idx[j + 1]]
                /\ \A i \in (1..K) \ Range(idx) :
                     \A j \in 1..n : a[i] <= a[idx[j]]
           /\ UNCHANGED Attributes]_vars

\* a DiffChoiceRoute built with num_chosen = 1 that has two edges has
\* sampled with a parameter larger on the second edge, and returned the
\* second edge alone
C11_Witness ==
  /\ kind = "DiffChoiceRoute"
  /\ num_chosen = 1
  /\ Len(candidates) = 2
  /\ last.op = "sample_choice"
  /\ last.status = "ok"
  /\ last.arg.v[1] < last.arg.v[2]
  /\ last.ret = List(<<candidates[2]>>)

\* C12: on a DiffMutableOP with K candidates, sample_choice with a
\* parameter of length K returns the name of the candidate at the index of
\* the maximal parameter value, the first such index when several are
\* maximal; the call changes no attribute of the mutable.
C12_SampleChoiceArgMax ==
  [][(/\ kind = "DiffMutableOP"
      /\ last'.op = "sample_choice"
      /\ Len(last'.arg.v) = Len(candidates)) =>
       LET a == last'.arg.v
       IN  /\ last'.status = "ok"
           /\ \E i \in 1..Len(a) :
                /\ \A j \in 1..Len(a) : a[j] <= a[i]
                /\ \A j \in 1..(i - 1) : a[j] < a[i]
                /\ last'.ret = Str(candidates[i])
           /\ UNCHANGED Attributes]_vars

\* a DiffMutableOP with two candidates has sampled with a parameter equal
\* on both, and returned the first candidate
C12_Witness ==
  /\ kind = "DiffMutableOP"
  /\ Len(candidates) = 2
  /\ last.op = "sample_choice"
  /\ last.status = "ok"
  /\ last.arg.v[1] = last.arg.v[2]
  /\ last.ret = Str(candidates[1])

====
